---- MODULE Spec2Model ----
(***************************************************************************)
(* Multiavatar-Go: the avatar derivation pipeline of package multiavatar.   *)
(*                                                                          *)
(* Two invocations of Generate run side by side.  Each has its own config,  *)
(* seed and loop position; the catalog (themes, parts) is the only state    *)
(* they share.  A Go string is a sequence of one-symbol strings, so that    *)
(* trimming, case folding, the digit filter, the placeholder scan and the   *)
(* first-occurrence replace are computed as the library computes them.      *)
(***************************************************************************)
EXTENDS Integers, Sequences, FiniteSets, TLC

VARIABLES
    themes,         \* catalog: version -> theme -> part name -> colour list
    parts,          \* catalog: version number -> part index -> template
    args,           \* per call: the arguments (input, opts) of Generate
    pc,             \* per call: position in Generate
    cfg,            \* per call: the config built by the options
    optIdx,         \* per call: index of the next option to apply
    hashStr,        \* per call: the seed digits
    partIdx,        \* per call: loop index i over partNames
    resolved,       \* per call: name -> (val, partV, theme) of finished iterations
    selectedParts,  \* per call: name -> rendered fragment
    result          \* per call: the returned string

vars == <<themes, parts, args, pc, cfg, optIdx, hashStr, partIdx, resolved,
          selectedParts, result>>

Calls == {1, 2}

\* Longest option sequence passed to Generate.
MaxOpts == 2

(***************************************************************************)
(* Strings                                                                  *)
(***************************************************************************)
Space == {" ", "\t", "\n", "\r"}

LowerLetters == <<"a","b","c","d","e","f","g","h","i","j","k","l","m",
                  "n","o","p","q","r","s","t","u","v","w","x","y","z">>

UpperLetters == <<"A","B","C","D","E","F","G","H","I","J","K","L","M",
                  "N","O","P","Q","R","S","T","U","V","W","X","Y","Z">>

Digits == <<"0","1","2","3","4","5","6","7","8","9">>

IndexIn(seq, x) ==
    IF \E i \in DOMAIN seq : seq[i] = x
    THEN CHOOSE i \in DOMAIN seq : seq[i] = x
    ELSE 0

RECURSIVE TrimLeft(_)
TrimLeft(s) ==
    IF s # <<>> /\ Head(s) \in Space THEN TrimLeft(Tail(s)) ELSE s

RECURSIVE TrimRight(_)
TrimRight(s) ==
    IF s # <<>> /\ s[Len(s)] \in Space
    THEN TrimRight(SubSeq(s, 1, Len(s) - 1))
    ELSE s

TrimSpace(s) == TrimRight(TrimLeft(s))

UpperCh(ch) ==
    LET i == IndexIn(LowerLetters, ch) IN IF i > 0 THEN UpperLetters[i] ELSE ch

LowerCh(ch) ==
    LET i == IndexIn(UpperLetters, ch) IN IF i > 0 THEN LowerLetters[i] ELSE ch

ToUpper(s) == [i \in 1..Len(s) |-> UpperCh(s[i])]

ToLower(s) == [i \in 1..Len(s) |-> LowerCh(s[i])]

IsDigit(ch) == IndexIn(Digits, ch) > 0

DigitVal(ch) == IndexIn(Digits, ch) - 1

RECURSIVE DecVal(_)
DecVal(s) ==
    IF s = <<>> THEN 0
    ELSE 10 * DecVal(SubSeq(s, 1, Len(s) - 1)) + DigitVal(s[Len(s)])

\* strconv.Atoi with the error dropped: the value, or 0 when s is not a number.
Atoi(s) ==
    LET signed == s # <<>> /\ Head(s) \in {"+", "-"}
        body   == IF signed THEN Tail(s) ELSE s
    IN  IF body = <<>> \/ \E i \in DOMAIN body : ~IsDigit(body[i]) THEN 0
        ELSE IF signed /\ Head(s) = "-" THEN 0 - DecVal(body)
        ELSE DecVal(body)

\* fmt.Sprintf("%02d", n) for n >= 0.
RECURSIVE Itoa(_)
Itoa(n) ==
    IF n < 10 THEN <<Digits[n + 1]>>
    ELSE Itoa(n \div 10) \o <<Digits[(n % 10) + 1]>>

Sprintf02d(n) == IF n < 10 THEN <<"0">> \o Itoa(n) ELSE Itoa(n)

\* regexp `[^0-9]` ReplaceAllString(s, ""): the digits of s, in order.
StripNonDigits(s) == SelectSeq(s, IsDigit)

\* strings.Index: the first position at which old occurs in s, 0 when none.
IndexOf(s, old) ==
    LET hits == {i \in 1..(Len(s) - Len(old) + 1) :
                    SubSeq(s, i, i + Len(old) - 1) = old}
    IN  IF hits = {} THEN 0 ELSE CHOOSE i \in hits : \A j \in hits : i <= j

\* strings.Replace(s, old, new, 1).
ReplaceFirst(s, old, new) ==
    LET i == IndexOf(s, old)
    IN  IF i = 0 THEN s
        ELSE SubSeq(s, 1, i - 1) \o new \o SubSeq(s, i + Len(old), Len(s))

\* First position >= from whose symbol is in set, 0 when none.
NextIn(s, from, set) ==
    LET hits == {i \in from..Len(s) : s[i] \in set}
    IN  IF hits = {} THEN 0 ELSE CHOOSE i \in hits : \A j \in hits : i <= j

\* regexp `#(.*?);` FindAllString(s, -1) from position from: leftmost,
\* non-overlapping, shortest matches; `.` does not match a newline.
RECURSIVE FindAllFrom(_, _)
FindAllFrom(s, from) ==
    LET h == NextIn(s, from, {"#"})
        e == IF h = 0 THEN 0 ELSE NextIn(s, h + 1, {";", "\n"})
    IN  IF h = 0 \/ e = 0 THEN <<>>
        ELSE IF s[e] = ";" THEN <<SubSeq(s, h, e)>> \o FindAllFrom(s, e + 1)
        ELSE FindAllFrom(s, e + 1)

FindAllString(s) == FindAllFrom(s, 1)

(***************************************************************************)
(* Go maps: a function on the keys present.                                 *)
(***************************************************************************)
EmptyMap == [x \in {} |-> <<>>]

MapSet(m, key, v) ==
    [x \in (DOMAIN m) \cup {key} |-> IF x = key THEN v ELSE m[x]]

Has(m, key) == key \in DOMAIN m

(***************************************************************************)
(* Part names and documents                                                 *)
(***************************************************************************)
env == <<"e","n","v">>
clo == <<"c","l","o">>
head == <<"h","e","a","d">>
mouth == <<"m","o","u","t","h">>
eyes == <<"e","y","e","s">>
top == <<"t","o","p">>

\* As partNames, in the order in which the document is assembled.
partNamesRenderOrder == <<env, head, clo, top, eyes, mouth>>

partNames == <<env, clo, head, mouth, eyes, top>>

KnownParts == {partNames[i] : i \in DOMAIN partNames}

partIndex(partName) == IndexIn(partNames, partName) - 1

ThemeA == <<"A">>
ThemeB == <<"B">>
ThemeC == <<"C">>

ThemeLetters == {ThemeA, ThemeB, ThemeC}

OpenTag == <<"<svg xmlns=\"http://www.w3.org/2000/svg\" viewBox=\"0 0 231 231\">">>

CloseTag == <<"</svg>">>

(***************************************************************************)
(* Catalog.  The data tables themes and parts are not part of the sources   *)
(* at hand; these stand-ins follow the data model: 16 versions, 3 themes,   *)
(* 6 parts, every template holding ordered `#..;` placeholders and every    *)
(* colour list covering its template's placeholders.                        *)
(***************************************************************************)
VersionCodes == {Sprintf02d(n) : n \in 0..15}

PartTag == <<"<env", "<clo", "<head", "<mouth", "<eyes", "<top">>

PlaceholderCount == <<1, 2, 1, 1, 2, 2>>

Template(partID, idx) ==
    <<PartTag[idx + 1]>> \o Sprintf02d(partID) \o <<"#", "0", "1", ";">>
        \o (IF PlaceholderCount[idx + 1] > 1 THEN <<"#", "0", "2", ";">> ELSE <<>>)
        \o <<"/>">>

CatalogColors(theme, name) ==
    [i \in 1..PlaceholderCount[partIndex(name) + 1] |-> <<"#">> \o theme \o <<Digits[i + 1]>>]

CatalogThemes ==
    [v \in VersionCodes |-> [t \in ThemeLetters |-> [n \in KnownParts |-> CatalogColors(t, n)]]]

CatalogParts ==
    [id \in 0..15 |-> [idx \in 0..5 |-> Template(id, idx)]]

(***************************************************************************)
(* Inputs and their SHA-256 digests                                         *)
(***************************************************************************)
\* Stands for an input whose digest holds eleven decimal digits.
FewDigitsInput == "<input with an 11-digit digest>"

\* hex.EncodeToString(sha256.Sum256([]byte(input))).
sha256Hex(input) ==
    CASE input = "" ->
        <<"e","3","b","0","c","4","4","2","9","8","f","c","1","c","1","4","9","a","f","b","f","4","c","8","9","9","6","f","b","9","2","4","2","7","a","e","4","1","e","4","6","4","9","b","9","3","4","c","a","4","9","5","9","9","1","b","7","8","5","2","b","8","5","5">>
    [] input = "Binx Bond123" ->
        <<"a","c","4","c","4","6","1","7","2","2","6","8","1","7","3","5","3","0","a","3","5","7","8","8","7","b","3","1","e","6","6","9","f","e","9","0","e","7","b","8","5","d","a","9","8","3","3","f","f","b","7","8","6","8","7","4","6","5","a","3","6","2","5","a">>
    [] input = "John Doe" ->
        <<"6","c","e","a","5","7","c","2","f","b","6","c","b","c","2","a","4","0","4","1","1","1","3","5","0","0","5","7","6","0","f","2","4","1","f","f","f","c","3","e","5","e","6","7","a","b","9","9","8","8","2","7","2","6","4","3","1","0","3","7","f","9","0","8">>
    [] input = "Go" ->
        <<"6","c","c","8","5","1","9","b","9","1","5","8","4","e","8","b","d","4","3","5","d","6","3","3","4","1","e","0","8","3","8","a","9","9","7","2","1","9","4","8","7","1","8","b","1","c","9","c","1","e","9","c","3","5","8","c","6","4","b","a","9","9","2","a">>
    [] input = "b" ->
        <<"3","e","2","3","e","8","1","6","0","0","3","9","5","9","4","a","3","3","8","9","4","f","6","5","6","4","e","1","b","1","3","4","8","b","b","d","7","a","0","0","8","8","d","4","2","c","4","a","c","b","7","3","e","e","a","e","d","5","9","c","0","0","9","d">>
    [] input = "e" ->
        <<"3","f","7","9","b","b","7","b","4","3","5","b","0","5","3","2","1","6","5","1","d","a","e","f","d","3","7","4","c","d","c","6","8","1","d","c","0","6","f","a","a","6","5","e","3","7","4","e","3","8","3","3","7","b","8","8","c","a","0","4","6","d","e","a">>
    [] input = "q" ->
        <<"8","e","3","5","c","2","c","d","3","b","f","6","6","4","1","b","d","b","0","e","2","0","5","0","b","7","6","9","3","2","c","b","b","2","e","6","0","3","4","a","0","d","d","a","c","c","1","d","9","b","e","a","8","2","a","6","b","a","5","7","f","7","c","f">>
    [] input = "aw" ->
        <<"f","5","f","e","8","8","e","e","0","8","7","3","5","a","e","2","5","9","2","6","5","4","9","5","a","9","3","c","8","d","e","2","b","0","e","a","c","f","e","c","f","0","c","d","9","0","b","5","8","2","1","4","7","9","b","e","3","1","9","9","f","a","8","c">>
    [] input = "bl" ->
        <<"2","9","d","9","4","8","9","5","6","4","c","8","7","5","d","7","3","1","1","0","8","c","8","f","b","d","8","d","f","a","3","e","6","9","8","c","a","2","0","b","e","4","c","0","0","8","7","8","d","d","a","7","1","6","d","e","8","c","9","9","3","b","9","7">>
    [] input = "ck" ->
        <<"d","9","3","b","e","c","a","6","e","f","d","0","4","2","1","b","3","1","4","c","0","8","1","0","6","6","0","6","4","a","c","0","e","3","7","1","b","3","0","6","f","7","1","5","c","c","0","9","3","5","b","2","8","7","9","e","2","4","9","b","a","9","d","f">>
    [] input = "ec" ->
        <<"1","e","b","8","5","f","4","d","6","a","3","2","3","4","c","e","7","a","c","b","8","c","5","1","c","7","5","9","3","0","f","1","2","e","9","5","2","5","1","7","e","2","e","3","8","9","9","1","4","a","6","c","a","8","f","8","9","a","8","8","1","a","0","d">>
    [] input = "mw" ->
        <<"b","a","d","e","9","e","a","5","7","9","3","1","f","2","e","f","4","3","d","f","0","4","d","a","9","c","1","a","f","c","2","6","3","9","7","1","b","c","a","2","c","c","9","d","0","e","b","9","3","1","f","8","8","a","e","8","2","9","3","3","2","3","a","9">>
    [] input = "acu" ->
        <<"1","d","f","d","7","2","8","4","f","5","7","7","0","a","9","f","4","6","7","2","9","1","c","3","a","e","c","6","e","d","3","c","7","4","a","9","c","1","5","2","2","2","6","c","5","3","b","4","3","c","3","3","c","0","5","8","3","0","9","6","0","9","8","e">>
    [] input = "cfa" ->
        <<"e","7","6","9","0","f","0","5","0","a","f","3","7","0","f","0","e","e","e","f","1","7","3","7","7","f","6","b","4","d","9","a","b","9","0","9","9","6","0","e","a","e","9","e","6","f","a","0","7","3","a","1","4","9","b","3","b","2","1","b","9","9","e","a">>
    [] input = "za" ->
        <<"3","c","4","2","d","9","a","c","9","8","0","7","b","b","f","9","1","7","4","5","b","9","2","1","d","4","8","8","7","3","7","1","b","4","1","b","4","a","5","2","e","4","e","7","8","f","0","d","d","1","2","7","3","5","8","e","9","6","7","d","d","4","e","0">>
    [] input = "bds" ->
        <<"7","1","f","1","a","4","d","d","0","a","c","2","0","b","6","9","6","5","5","b","0","d","3","a","3","9","0","a","b","a","4","c","8","e","0","9","4","7","9","5","c","b","1","e","4","8","1","2","2","9","4","1","4","0","2","6","a","7","8","6","3","8","4","a">>
    [] input = "fna" ->
        <<"2","7","0","4","7","8","f","2","8","8","c","6","e","a","6","9","5","7","b","e","6","d","b","b","6","3","e","b","6","c","5","7","a","8","9","4","e","1","6","6","2","2","b","6","5","f","2","c","8","0","0","7","5","e","d","2","a","a","5","9","c","c","5","b">>
    [] input = "jh" ->
        <<"8","8","3","3","c","b","5","7","e","b","8","2","1","d","6","2","9","8","9","9","b","a","0","0","1","5","a","e","c","1","a","a","8","e","f","c","7","c","2","4","7","2","f","0","5","9","0","b","e","d","d","1","c","e","b","e","2","8","1","0","7","c","d","6">>
    [] input = "ll" ->
        <<"f","9","e","0","1","2","3","9","6","b","e","6","5","d","b","0","2","2","b","d","1","1","d","e","9","3","0","8","a","9","b","4","0","e","0","4","e","4","9","2","c","c","4","e","e","8","6","3","6","c","0","9","f","b","8","3","d","f","4","a","a","2","7","b">>
    [] input = "gi" ->
        <<"1","9","1","7","d","7","3","0","c","8","8","e","d","0","f","6","f","d","7","6","4","8","7","c","7","a","e","a","f","5","8","6","3","5","e","f","f","b","0","3","d","f","d","6","8","8","d","7","4","d","4","2","3","f","b","c","b","d","5","1","0","b","5","a">>
    [] input = FewDigitsInput ->
        <<"3","e","0","a","4","b","4","c","2","d","9","f","8","e","b","f","c","a","1","c","f","d","e","a","f","b","c","d","d","e","a","a","1","b","f","c","a","e","d","b","4","c","f","b","e","a","a","d","9","c","f","d","b","e","c","a","a","f","e","b","f","d","a","e">>

Inputs == {"", "Binx Bond123", "John Doe", "Go", FewDigitsInput}

(***************************************************************************)
(* config and the options                                                   *)
(***************************************************************************)
\* cfg := &config{}; a nil map reads like an empty one, a nil pointer is <<>>.
NewConfig ==
    [withoutBackground |-> FALSE,
     selectedTheme     |-> <<>>,
     forcePartV        |-> EmptyMap,
     allowedVersions   |-> EmptyMap,
     partTheme         |-> EmptyMap,
     allowedThemes     |-> EmptyMap,
     disabledParts     |-> EmptyMap,
     overrideColors    |-> EmptyMap]

\* As WithTheme, with a valid global theme also dropping the per-part themes
\* set so far.
WithThemeResetsParts(theme, c) ==
    LET t == ToUpper(TrimSpace(theme))
    IN  IF t = ThemeA \/ t = ThemeB \/ t = ThemeC
        THEN [c EXCEPT !.selectedTheme = <<t>>, !.partTheme = EmptyMap]
        ELSE c

WithTheme(theme, c) ==
    LET t == ToUpper(TrimSpace(theme))
    IN  IF t = ThemeA \/ t = ThemeB \/ t = ThemeC
        THEN [c EXCEPT !.selectedTheme = <<t>>]
        ELSE c

\* As WithPartVersion, without the length check.
WithPartVersionAnyLength(partName, partVersion, c) ==
    LET pn == TrimSpace(partName)
        pv == TrimSpace(partVersion)
    IN  IF pn \in KnownParts
        THEN [c EXCEPT !.forcePartV = MapSet(@, pn, pv)]
        ELSE c

WithPartVersion(partName, partVersion, c) ==
    LET pn == TrimSpace(partName)
        pv == TrimSpace(partVersion)
    IN  IF pn \in KnownParts /\ Len(pv) = 2
        THEN [c EXCEPT !.forcePartV = MapSet(@, pn, pv)]
        ELSE c

WithPartColors(partName, colors, c) ==
    LET pn == TrimSpace(partName)
        cp == [i \in 1..Len(colors) |-> TrimSpace(colors[i])]
    IN  IF pn \in KnownParts
        THEN [c EXCEPT !.overrideColors = MapSet(@, pn, cp)]
        ELSE c

WithPartTheme(partName, theme, c) ==
    LET pn == TrimSpace(partName)
        t  == ToUpper(TrimSpace(theme))
    IN  IF pn \in KnownParts /\ (t = ThemeA \/ t = ThemeB \/ t = ThemeC)
        THEN [c EXCEPT !.partTheme = MapSet(@, pn, t)]
        ELSE c

IsThemeLetter(t) == t = ThemeA \/ t = ThemeB \/ t = ThemeC

WithAllowedThemes(partName, themesList, c) ==
    LET pn == TrimSpace(partName)
        tl == SelectSeq([i \in 1..Len(themesList) |-> ToUpper(TrimSpace(themesList[i]))],
                        IsThemeLetter)
    IN  IF pn \in KnownParts /\ Len(tl) > 0
        THEN [c EXCEPT !.allowedThemes = MapSet(@, pn, tl)]
        ELSE c

WithoutPart(partName, c) ==
    LET pn == TrimSpace(partName)
    IN  IF pn \in KnownParts
        THEN [c EXCEPT !.disabledParts = MapSet(@, pn, TRUE)]
        ELSE c

HasLen2(v) == Len(v) = 2

WithAllowedVersions(partName, versions, c) ==
    LET pn    == TrimSpace(partName)
        vlist == SelectSeq([i \in 1..Len(versions) |-> TrimSpace(versions[i])], HasLen2)
    IN  IF pn \in KnownParts /\ Len(vlist) > 0
        THEN [c EXCEPT !.allowedVersions = MapSet(@, pn, vlist)]
        ELSE c

\* U+2640 and U+2642 are one symbol each.
FemaleAliases == {<<"f","e","m","a","l","e">>, <<"w","o","m","a","n">>,
                  <<"g","i","r","l">>, <<"f">>, <<"U+2640">>}

MaleAliases == {<<"m","a","l","e">>, <<"m","a","n">>, <<"b","o","y">>,
                <<"m">>, <<"U+2642">>}

V(a, b) == <<a, b>>

\* As WithGender, with the preset's theme given only to a part that has no
\* forced theme yet.
WithGenderKeepTheme(gender, c) ==
    LET g == ToLower(TrimSpace(gender))
        Keep(m, name, t) == IF Has(m, name) THEN m ELSE MapSet(m, name, t)
    IN  IF g \in FemaleAliases THEN
            [c EXCEPT
                !.allowedVersions =
                    MapSet(MapSet(@, top, <<V("0","1"), V("0","3"), V("0","7"), V("1","0")>>),
                           eyes, <<V("0","3"), V("1","1")>>),
                !.allowedThemes = MapSet(@, top, <<ThemeA, ThemeC>>),
                !.partTheme = Keep(Keep(@, top, ThemeC), eyes, ThemeC)]
        ELSE IF g \in MaleAliases THEN
            [c EXCEPT
                !.allowedVersions =
                    MapSet(MapSet(@, top, <<V("0","4"), V("0","5"), V("1","4")>>),
                           eyes, <<V("0","9"), V("1","0")>>),
                !.allowedThemes = MapSet(@, top, <<ThemeA, ThemeB>>),
                !.partTheme = Keep(Keep(@, top, ThemeB), eyes, ThemeB)]
        ELSE
            [c EXCEPT
                !.allowedVersions =
                    MapSet(MapSet(@, top, <<V("0","1"), V("0","3"), V("0","4"), V("0","5"),
                                            V("0","7"), V("1","0"), V("1","4")>>),
                           eyes, <<V("0","3"), V("0","9"), V("1","0"), V("1","1")>>),
                !.allowedThemes = MapSet(@, top, <<ThemeA, ThemeB, ThemeC>>)]

WithGender(gender, c) ==
    LET g == ToLower(TrimSpace(gender))
    IN  IF g \in FemaleAliases THEN
            [c EXCEPT
                !.allowedVersions =
                    MapSet(MapSet(@, top, <<V("0","1"), V("0","3"), V("0","7"), V("1","0")>>),
                           eyes, <<V("0","3"), V("1","1")>>),
                !.allowedThemes = MapSet(@, top, <<ThemeA, ThemeC>>),
                !.partTheme = MapSet(MapSet(@, top, ThemeC), eyes, ThemeC)]
        ELSE IF g \in MaleAliases THEN
            [c EXCEPT
                !.allowedVersions =
                    MapSet(MapSet(@, top, <<V("0","4"), V("0","5"), V("1","4")>>),
                           eyes, <<V("0","9"), V("1","0")>>),
                !.allowedThemes = MapSet(@, top, <<ThemeA, ThemeB>>),
                !.partTheme = MapSet(MapSet(@, top, ThemeB), eyes, ThemeB)]
        ELSE
            [c EXCEPT
                !.allowedVersions =
                    MapSet(MapSet(@, top, <<V("0","1"), V("0","3"), V("0","4"), V("0","5"),
                                            V("0","7"), V("1","0"), V("1","4")>>),
                           eyes, <<V("0","3"), V("0","9"), V("1","0"), V("1","1")>>),
                !.allowedThemes = MapSet(@, top, <<ThemeA, ThemeB, ThemeC>>)]

WithoutBackground(c) == [c EXCEPT !.withoutBackground = TRUE]

\* An Option value: the constructor called and its arguments.
Opt(kind, partName, str, list) ==
    [kind |-> kind, partName |-> partName, str |-> str, list |-> list]

OptWithTheme(theme) == Opt("WithTheme", <<>>, theme, <<>>)
OptWithPartVersion(pn, pv) == Opt("WithPartVersion", pn, pv, <<>>)
OptWithPartColors(pn, colors) == Opt("WithPartColors", pn, <<>>, colors)
OptWithPartTheme(pn, theme) == Opt("WithPartTheme", pn, theme, <<>>)
OptWithAllowedThemes(pn, list) == Opt("WithAllowedThemes", pn, <<>>, list)
OptWithoutPart(pn) == Opt("WithoutPart", pn, <<>>, <<>>)
OptWithAllowedVersions(pn, list) == Opt("WithAllowedVersions", pn, <<>>, list)
OptWithGender(gender) == Opt("WithGender", <<>>, gender, <<>>)
OptWithoutBackground == Opt("WithoutBackground", <<>>, <<>>, <<>>)

\* opt(cfg)
ApplyOpt(opt, c) ==
    CASE opt.kind = "WithTheme"           -> WithTheme(opt.str, c)
      [] opt.kind = "WithPartVersion"     -> WithPartVersion(opt.partName, opt.str, c)
      [] opt.kind = "WithPartColors"      -> WithPartColors(opt.partName, opt.list, c)
      [] opt.kind = "WithPartTheme"       -> WithPartTheme(opt.partName, opt.str, c)
      [] opt.kind = "WithAllowedThemes"   -> WithAllowedThemes(opt.partName, opt.list, c)
      [] opt.kind = "WithoutPart"         -> WithoutPart(opt.partName, c)
      [] opt.kind = "WithAllowedVersions" -> WithAllowedVersions(opt.partName, opt.list, c)
      [] opt.kind = "WithGender"          -> WithGender(opt.str, c)
      [] opt.kind = "WithoutBackground"   -> WithoutBackground(c)

(***************************************************************************)
(* Generate: seed, feature resolution, rendering                            *)
(***************************************************************************)
\* As IsEmptyInput, with the early return never taken.
IsEmptyInputNever(input) == FALSE

IsEmptyInput(input) == input = ""

\* First 12 digits of the digest's decimal digits, or all of them if fewer.
SeedOf(input) ==
    LET sha256Numbers == StripNonDigits(sha256Hex(input))
    IN  IF Len(sha256Numbers) > 12 THEN SubSeq(sha256Numbers, 1, 12) ELSE sha256Numbers

\* hashStr[i*2 : i*2+2] is in range.
ChunkInRange(hs, i) == i * 2 + 2 <= Len(hs)

\* As ScaleNr, with a half rounded down.
ScaleNrHalfDown(val) == (val * 47 * 2 + 99) \div 200

\* int(math.Round(float64(val) * 47 / 100)), val >= 0: half rounds away from zero.
ScaleNr(val) == (val * 47 * 2 + 100) \div 200

\* As DefaultPart, with theme C starting one step later.
DefaultPartBandOff(nr) ==
    IF nr > 32 THEN [partV |-> Sprintf02d(nr - 32), theme |-> ThemeC]
    ELSE IF nr > 15 THEN [partV |-> Sprintf02d(nr - 16), theme |-> ThemeB]
    ELSE [partV |-> Sprintf02d(nr), theme |-> ThemeA]

\* 4c: the seed-derived version and theme.
DefaultPart(nr) ==
    IF nr > 31 THEN [partV |-> Sprintf02d(nr - 32), theme |-> ThemeC]
    ELSE IF nr > 15 THEN [partV |-> Sprintf02d(nr - 16), theme |-> ThemeB]
    ELSE [partV |-> Sprintf02d(nr), theme |-> ThemeA]

\* As ResolveTheme, with the global theme applied last.
ResolveThemeGlobalLast(c, name, val, theme) ==
    LET t1 == IF Has(c.partTheme, name) THEN c.partTheme[name]
              ELSE IF Has(c.allowedThemes, name) /\ Len(c.allowedThemes[name]) > 0
              THEN c.allowedThemes[name][(val % Len(c.allowedThemes[name])) + 1]
              ELSE theme
    IN  IF c.selectedTheme # <<>> THEN c.selectedTheme[1] ELSE t1

ResolveTheme(c, name, val, theme) ==
    LET t1 == IF c.selectedTheme # <<>> THEN c.selectedTheme[1] ELSE theme
    IN  IF Has(c.partTheme, name) THEN c.partTheme[name]
        ELSE IF Has(c.allowedThemes, name) /\ Len(c.allowedThemes[name]) > 0
        THEN c.allowedThemes[name][(val % Len(c.allowedThemes[name])) + 1]
        ELSE t1

\* As ResolveVersion, with the allowed list tested before the forced version.
ResolveVersionAllowedFirst(c, name, val, partV) ==
    IF Has(c.allowedVersions, name) /\ Len(c.allowedVersions[name]) > 0
    THEN c.allowedVersions[name][(val % Len(c.allowedVersions[name])) + 1]
    ELSE IF Has(c.forcePartV, name) /\ Len(c.forcePartV[name]) = 2
    THEN c.forcePartV[name]
    ELSE partV

ResolveVersion(c, name, val, partV) ==
    IF Has(c.forcePartV, name) /\ Len(c.forcePartV[name]) = 2
    THEN c.forcePartV[name]
    ELSE IF Has(c.allowedVersions, name) /\ Len(c.allowedVersions[name]) > 0
    THEN c.allowedVersions[name][(val % Len(c.allowedVersions[name])) + 1]
    ELSE partV

\* cfg.overrideColors[name]: nil when absent.
OverrideOf(c, name) ==
    IF Has(c.overrideColors, name) THEN c.overrideColors[name] ELSE <<>>

\* The loop over matches: replace the first occurrence of matches[i] by
\* colors[i] + ";" while i < len(colors).
RECURSIVE ReplaceLoop(_, _, _, _)
ReplaceLoop(resultFinal, matches, colors, i) ==
    IF i > Len(matches) THEN resultFinal
    ELSE ReplaceLoop(IF i <= Len(colors)
                     THEN ReplaceFirst(resultFinal, matches[i], colors[i] \o <<";">>)
                     ELSE resultFinal,
                     matches, colors, i + 1)

getFinalPartWithOverride(partName, partV, theme, override) ==
    LET ok == /\ partV \in DOMAIN themes
              /\ theme \in DOMAIN themes[partV]
              /\ partName \in DOMAIN themes[partV][theme]
    IN  IF ~ok THEN <<>>
        ELSE LET colors    == IF Len(override) > 0 THEN override
                              ELSE themes[partV][theme][partName]
                 partID    == Atoi(partV)
                 svgString == parts[partID][partIndex(partName)]
             IN  ReplaceLoop(svgString, FindAllString(svgString), colors, 1)

\* cfg.disabledParts[name]: false when absent.
Disabled(c, name) == Has(c.disabledParts, name) /\ c.disabledParts[name]

\* As AssembleSVG, with head written under clo's flag.
AssembleSVGWrongFlag(c, sp) ==
    LET s0 == OpenTag
        s1 == IF ~c.withoutBackground /\ ~Disabled(c, env) THEN s0 \o sp[env] ELSE s0
        s2 == IF ~Disabled(c, clo)   THEN s1 \o sp[head]  ELSE s1
        s3 == IF ~Disabled(c, clo)   THEN s2 \o sp[clo]   ELSE s2
        s4 == IF ~Disabled(c, top)   THEN s3 \o sp[top]   ELSE s3
        s5 == IF ~Disabled(c, eyes)  THEN s4 \o sp[eyes]  ELSE s4
        s6 == IF ~Disabled(c, mouth) THEN s5 \o sp[mouth] ELSE s5
    IN  s6 \o CloseTag

\* As AssembleSVG, with clo written before head.
AssembleSVGCloFirst(c, sp) ==
    LET s0 == OpenTag
        s1 == IF ~c.withoutBackground /\ ~Disabled(c, env) THEN s0 \o sp[env] ELSE s0
        s2 == IF ~Disabled(c, clo)   THEN s1 \o sp[clo]   ELSE s1
        s3 == IF ~Disabled(c, head)  THEN s2 \o sp[head]  ELSE s2
        s4 == IF ~Disabled(c, top)   THEN s3 \o sp[top]   ELSE s3
        s5 == IF ~Disabled(c, eyes)  THEN s4 \o sp[eyes]  ELSE s4
        s6 == IF ~Disabled(c, mouth) THEN s5 \o sp[mouth] ELSE s5
    IN  s6 \o CloseTag

\* 5: the WriteString calls, in program order.
AssembleSVG(c, sp) ==
    LET s0 == OpenTag
        s1 == IF ~c.withoutBackground /\ ~Disabled(c, env) THEN s0 \o sp[env] ELSE s0
        s2 == IF ~Disabled(c, head)  THEN s1 \o sp[head]  ELSE s1
        s3 == IF ~Disabled(c, clo)   THEN s2 \o sp[clo]   ELSE s2
        s4 == IF ~Disabled(c, top)   THEN s3 \o sp[top]   ELSE s3
        s5 == IF ~Disabled(c, eyes)  THEN s4 \o sp[eyes]  ELSE s4
        s6 == IF ~Disabled(c, mouth) THEN s5 \o sp[mouth] ELSE s5
    IN  s6 \o CloseTag

(***************************************************************************)
(* The steps of one invocation                                              *)
(***************************************************************************)
\* cfg := &config{}
Start(k) ==
    /\ pc[k] = "idle"
    /\ cfg' = [cfg EXCEPT ![k] = NewConfig]
    /\ optIdx' = [optIdx EXCEPT ![k] = 1]
    /\ pc' = [pc EXCEPT ![k] = "opts"]
    /\ UNCHANGED <<themes, parts, args, hashStr, partIdx, resolved, selectedParts, result>>

\* As ApplyOption, with the config held in one package-level variable that
\* every invocation writes.
ApplyOptionShared(k) ==
    /\ pc[k] = "opts"
    /\ optIdx[k] <= Len(args[k].opts)
    /\ cfg' = [j \in Calls |-> ApplyOpt(args[k].opts[optIdx[k]], cfg[j])]
    /\ optIdx' = [optIdx EXCEPT ![k] = @ + 1]
    /\ UNCHANGED <<themes, parts, args, pc, hashStr, partIdx, resolved, selectedParts, result>>

\* One iteration of `for _, opt := range opts { opt(cfg) }`.
ApplyOption(k) ==
    /\ pc[k] = "opts"
    /\ optIdx[k] <= Len(args[k].opts)
    /\ cfg' = [cfg EXCEPT ![k] = ApplyOpt(args[k].opts[optIdx[k]], @)]
    /\ optIdx' = [optIdx EXCEPT ![k] = @ + 1]
    /\ UNCHANGED <<themes, parts, args, pc, hashStr, partIdx, resolved, selectedParts, result>>

\* After the options: the empty-input return, else steps 1-3 (the seed).
ExtractSeed(k) ==
    /\ pc[k] = "opts"
    /\ optIdx[k] > Len(args[k].opts)
    /\ IF IsEmptyInput(args[k].input)
       THEN /\ result' = [result EXCEPT ![k] = <<>>]
            /\ pc' = [pc EXCEPT ![k] = "done"]
            /\ UNCHANGED <<hashStr, partIdx>>
       ELSE /\ hashStr' = [hashStr EXCEPT ![k] = SeedOf(args[k].input)]
            /\ partIdx' = [partIdx EXCEPT ![k] = 0]
            /\ pc' = [pc EXCEPT ![k] = "parts"]
            /\ UNCHANGED result
    /\ UNCHANGED <<themes, parts, args, cfg, optIdx, resolved, selectedParts>>

\* As ResolvePart, with a colour override written into the shared colour
\* table before rendering instead of being copied into a local slice.
ResolvePartInPlace(k) ==
    /\ pc[k] = "parts"
    /\ LET i    == partIdx[k]
           name == partNames[i + 1]
       IN  IF ~ChunkInRange(hashStr[k], i)
           THEN /\ pc' = [pc EXCEPT ![k] = "panic"]
                /\ UNCHANGED <<themes, partIdx, resolved, selectedParts>>
           ELSE LET valStr == SubSeq(hashStr[k], i * 2 + 1, i * 2 + 2)
                    val    == Atoi(valStr)
                    dflt   == DefaultPart(ScaleNr(val))
                    theme  == ResolveTheme(cfg[k], name, val, dflt.theme)
                    partV  == ResolveVersion(cfg[k], name, val, dflt.partV)
                    ov     == OverrideOf(cfg[k], name)
                    frag   == getFinalPartWithOverride(name, partV, theme, ov)
                IN  /\ themes' = IF Len(frag) > 0 /\ Len(ov) > 0
                                 THEN [themes EXCEPT ![partV][theme][name] = ov]
                                 ELSE themes
                    /\ resolved' = [resolved EXCEPT ![k] =
                            MapSet(@, name, [val |-> val, partV |-> partV, theme |-> theme])]
                    /\ selectedParts' = [selectedParts EXCEPT ![k] = MapSet(@, name, frag)]
                    /\ partIdx' = [partIdx EXCEPT ![k] = i + 1]
                    /\ pc' = [pc EXCEPT ![k] = IF i + 1 = Len(partNames)
                                               THEN "assemble" ELSE "parts"]
    /\ UNCHANGED <<parts, args, cfg, optIdx, hashStr, result>>

\* One iteration of `for i, name := range partNames`; the slice expression
\* panics when the seed is too short.
ResolvePart(k) ==
    /\ pc[k] = "parts"
    /\ LET i    == partIdx[k]
           name == partNames[i + 1]
       IN  IF ~ChunkInRange(hashStr[k], i)
           THEN /\ pc' = [pc EXCEPT ![k] = "panic"]
                /\ UNCHANGED <<partIdx, resolved, selectedParts>>
           ELSE LET valStr == SubSeq(hashStr[k], i * 2 + 1, i * 2 + 2)
                    val    == Atoi(valStr)
                    dflt   == DefaultPart(ScaleNr(val))
                    theme  == ResolveTheme(cfg[k], name, val, dflt.theme)
                    partV  == ResolveVersion(cfg[k], name, val, dflt.partV)
                    frag   == getFinalPartWithOverride(name, partV, theme,
                                                       OverrideOf(cfg[k], name))
                IN  /\ resolved' = [resolved EXCEPT ![k] =
                            MapSet(@, name, [val |-> val, partV |-> partV, theme |-> theme])]
                    /\ selectedParts' = [selectedParts EXCEPT ![k] = MapSet(@, name, frag)]
                    /\ partIdx' = [partIdx EXCEPT ![k] = i + 1]
                    /\ pc' = [pc EXCEPT ![k] = IF i + 1 = Len(partNames)
                                               THEN "assemble" ELSE "parts"]
    /\ UNCHANGED <<themes, parts, args, cfg, optIdx, hashStr, result>>

\* 5: assemble and return.
Assemble(k) ==
    /\ pc[k] = "assemble"
    /\ result' = [result EXCEPT ![k] = AssembleSVG(cfg[k], selectedParts[k])]
    /\ pc' = [pc EXCEPT ![k] = "done"]
    /\ UNCHANGED <<themes, parts, args, cfg, optIdx, hashStr, partIdx, resolved, selectedParts>>

Next ==
    \E k \in Calls :
        \/ Start(k)
        \/ ApplyOption(k)
        \/ ExtractSeed(k)
        \/ ResolvePart(k)
        \/ Assemble(k)

(***************************************************************************)
(* Initial states: the catalog as loaded, both calls not yet started.       *)
(***************************************************************************)
RECURSIVE SeqsUpTo(_, _)
SeqsUpTo(S, n) ==
    IF n = 0 THEN {<<>>}
    ELSE LET shorter == SeqsUpTo(S, n - 1)
         IN  shorter \cup {Append(q, x) : q \in {r \in shorter : Len(r) = n - 1}, x \in S}

Call(input, opts) == [input |-> input, opts |-> opts]

InitWith(a) ==
    /\ themes = CatalogThemes
    /\ parts = CatalogParts
    /\ args = a
    /\ pc = [k \in Calls |-> "idle"]
    /\ cfg = [k \in Calls |-> NewConfig]
    /\ optIdx = [k \in Calls |-> 1]
    /\ hashStr = [k \in Calls |-> <<>>]
    /\ partIdx = [k \in Calls |-> 0]
    /\ resolved = [k \in Calls |-> EmptyMap]
    /\ selectedParts = [k \in Calls |-> EmptyMap]
    /\ result = [k \in Calls |-> <<>>]

\* Options of every kind, well-formed and malformed.
MixedOptions ==
    {OptWithoutBackground,
     OptWithoutPart(<<" ">> \o top),
     OptWithTheme(<<" ", "b">>),
     OptWithPartTheme(<<"h","a","t">>, <<"z">>),
     OptWithPartVersion(eyes, V("9","9")),
     OptWithAllowedVersions(top, <<V("0","1"), <<"3">>, V("1","5")>>),
     OptWithPartColors(head, << <<"#","f","2">> >>),
     OptWithGender(<<"F">>)}

\* Two invocations with the same arguments.
Init ==
    \E s \in Inputs, o \in SeqsUpTo(MixedOptions, MaxOpts) :
        InitWith([k \in Calls |-> Call(s, o)])

Spec == Init /\ [][Next]_vars

(***************************************************************************)
(* Determinism                                                              *)
(***************************************************************************)
Finished(k) == pc[k] \in {"done", "panic"}

Returned(k) == pc[k] = "done"

\* C1: two invocations of Generate with the same input and the same option
\* sequence, run one after the other or interleaved step by step, end the
\* same way and return the same string.
C1_Deterministic ==
    (Finished(1) /\ Finished(2) /\ args[1] = args[2])
        => (pc[1] = pc[2] /\ result[1] = result[2])

\* Both invocations returned a document built under a full option sequence.
C1_Witness ==
    /\ Returned(1) /\ Returned(2)
    /\ args[1] = args[2]
    /\ Len(args[1].opts) = MaxOpts
    /\ result[1] # <<>>
    /\ cfg[1] # NewConfig

(***************************************************************************)
(* What an option sequence asks for, read off the options themselves        *)
(***************************************************************************)
Suppressed(opts) == \E i \in DOMAIN opts : opts[i].kind = "WithoutBackground"

DisabledBy(opts, p) ==
    \E i \in DOMAIN opts :
        opts[i].kind = "WithoutPart" /\ TrimSpace(opts[i].partName) = p

IncludedParts(opts) ==
    {p \in KnownParts : ~DisabledBy(opts, p) /\ (p = env => ~Suppressed(opts))}

RenderOrder == <<env, head, clo, top, eyes, mouth>>

RECURSIVE FragmentsFrom(_, _, _)
FragmentsFrom(sp, incl, i) ==
    IF i > Len(RenderOrder) THEN <<>>
    ELSE (IF RenderOrder[i] \in incl THEN sp[RenderOrder[i]] ELSE <<>>)
            \o FragmentsFrom(sp, incl, i + 1)

\* Opening tag, the fragments sp of the parts in incl in render order, closing tag.
DocOf(sp, incl) == OpenTag \o FragmentsFrom(sp, incl, 1) \o CloseTag

(***************************************************************************)
(* Empty input, abort freedom, assembly                                     *)
(***************************************************************************)
\* C2: an invocation with the empty input, whatever its options (valid or
\* malformed, in any order), returns the empty string: no tag, no fragment.
C2_EmptyInput ==
    \A k \in Calls :
        (Finished(k) /\ args[k].input = "") => (Returned(k) /\ result[k] = <<>>)

\* An empty-input call returned after applying a full option sequence that
\* holds a malformed option and changed the config.
C2_Witness ==
    \E k \in Calls :
        /\ Returned(k) /\ args[k].input = ""
        /\ Len(args[k].opts) = MaxOpts
        /\ \E i \in DOMAIN args[k].opts : args[k].opts[i].kind = "WithPartTheme"
        /\ cfg[k] # NewConfig

\* C3: for every non-empty input, however many decimal digits its digest
\* holds, Generate does not abort, and the document it returns begins with
\* the opening tag and ends with the closing tag.
C3_CompletesForEverySeedLength ==
    \A k \in Calls :
        args[k].input # "" =>
            /\ pc[k] # "panic"
            /\ Returned(k) =>
                /\ Len(result[k]) >= 2
                /\ SubSeq(result[k], 1, 1) = OpenTag
                /\ SubSeq(result[k], Len(result[k]), Len(result[k])) = CloseTag

\* C4: the document returned for a non-empty input is the opening tag, the
\* rendered fragments of the included parts in the order env, head, clo,
\* top, eyes, mouth, and the closing tag, whatever the order of the options.
C4_AssemblyOrder ==
    \A k \in Calls :
        (Returned(k) /\ args[k].input # "") =>
            result[k] = DocOf(selectedParts[k], IncludedParts(args[k].opts))

\* A document was returned with some parts left out and the others rendered.
C4_Witness ==
    \E k \in Calls :
        /\ Returned(k) /\ args[k].input # ""
        /\ DisabledBy(args[k].opts, top)
        /\ Suppressed(args[k].opts)
        /\ selectedParts[k][head] # <<>>
        /\ Len(result[k]) > 2

(***************************************************************************)
(* Range of the resolved pairs                                              *)
(***************************************************************************)
\* C8: whatever the options, every part of a returned document was resolved
\* to a version code in 00..15 and a theme in A, B, C, and every included
\* part has non-empty markup.
C8_ResolvedInCatalog ==
    \A k \in Calls :
        (Returned(k) /\ args[k].input # "") =>
            \A name \in KnownParts :
                /\ resolved[k][name].partV \in VersionCodes
                /\ resolved[k][name].theme \in ThemeLetters
                /\ name \in IncludedParts(args[k].opts) => selectedParts[k][name] # <<>>

(***************************************************************************)
(* Theme and version precedence                                             *)
(***************************************************************************)
ResolveInputs == {"Binx Bond123", "John Doe", "Go"}

ThemeOptions ==
    {OptWithTheme(<<" ", "b">>),
     OptWithPartTheme(top, <<"a">>),
     OptWithPartTheme(eyes, <<"c", " ">>),
     OptWithAllowedThemes(eyes, <<<<"b">>, <<"x">>, ThemeC, <<" ", "a">>>>),
     OptWithAllowedThemes(top, <<ThemeC, ThemeB>>),
     OptWithGender(<<"F">>)}

VersionOptions ==
    {OptWithPartVersion(eyes, <<" ", "0", "7">>),
     OptWithPartVersion(top, V("1","2")),
     OptWithAllowedVersions(eyes, <<V("0","3"), <<"1">>, V("1","1"), <<" ", "1", "5", " ">>>>),
     OptWithAllowedVersions(top, <<V("0","1"), V("1","5")>>),
     OptWithAllowedVersions(eyes, <<V("0","2")>>),
     OptWithGender(<<"m">>)}

\* One invocation with options drawn from U, one of the same input without.
InitResolve(U) ==
    \E s \in ResolveInputs, o \in SeqsUpTo(U, MaxOpts) :
        InitWith([k \in Calls |-> IF k = 1 THEN Call(s, o) ELSE Call(s, <<>>)])

InitTheme == InitResolve(ThemeOptions)

SpecTheme == InitTheme /\ [][Next]_vars

InitVersion == InitResolve(VersionOptions)

SpecVersion == InitVersion /\ [][Next]_vars

\* C6: the theme resolved for a part with raw value v is the per-part forced
\* theme if set, else entry v mod len of the part's allowed-theme list if
\* set, else the global theme if set, else the seed-derived default.
C6_ThemePrecedence ==
    \A k \in Calls : \A name \in DOMAIN resolved[k] :
        LET c == cfg[k]
            r == resolved[k][name]
        IN  r.theme =
                IF Has(c.partTheme, name) THEN c.partTheme[name]
                ELSE IF Has(c.allowedThemes, name)
                THEN c.allowedThemes[name][(r.val % Len(c.allowedThemes[name])) + 1]
                ELSE IF c.selectedTheme # <<>> THEN c.selectedTheme[1]
                ELSE DefaultPart(ScaleNr(r.val)).theme

\* A part with a forced theme, an allowed-theme list and a global theme all
\* set was resolved to the forced theme, which is neither the list's choice
\* nor the global theme.
C6_Witness ==
    \E k \in Calls : \E name \in DOMAIN resolved[k] :
        LET c == cfg[k]
            r == resolved[k][name]
        IN  /\ Has(c.partTheme, name) /\ Has(c.allowedThemes, name)
            /\ c.selectedTheme # <<>>
            /\ r.theme = c.partTheme[name]
            /\ r.theme # c.selectedTheme[1]
            /\ r.theme # c.allowedThemes[name][(r.val % Len(c.allowedThemes[name])) + 1]

\* C7: the version resolved for a part with raw value v is the per-part
\* forced version if set (also when an allowed-version list is set, in
\* either option order), else entry v mod len of the stored (sanitised)
\* allowed-version list if set, else the seed-derived default.
C7_VersionPrecedence ==
    \A k \in Calls : \A name \in DOMAIN resolved[k] :
        LET c == cfg[k]
            r == resolved[k][name]
        IN  r.partV =
                IF Has(c.forcePartV, name) THEN c.forcePartV[name]
                ELSE IF Has(c.allowedVersions, name)
                THEN c.allowedVersions[name][(r.val % Len(c.allowedVersions[name])) + 1]
                ELSE DefaultPart(ScaleNr(r.val)).partV

\* A part with both a forced version and an allowed-version list, the list
\* applied last, was resolved to the forced version and not the list's choice.
C7_Witness ==
    \E k \in Calls : \E name \in DOMAIN resolved[k] :
        LET c == cfg[k]
            r == resolved[k][name]
            o == args[k].opts
        IN  /\ Has(c.forcePartV, name) /\ Has(c.allowedVersions, name)
            /\ Len(o) >= 2 /\ o[Len(o)].kind = "WithAllowedVersions"
            /\ r.partV = c.forcePartV[name]
            /\ r.partV # c.allowedVersions[name][(r.val % Len(c.allowedVersions[name])) + 1]

(***************************************************************************)
(* One more option: omission, malformed arguments, empty colour lists       *)
(***************************************************************************)
OmitBase ==
    {OptWithoutBackground,
     OptWithoutPart(env),
     OptWithoutPart(top),
     OptWithPartColors(head, << <<"#","f","2">> >>)}

OmitOptions ==
    {OptWithoutPart(partNames[i]) : i \in DOMAIN partNames}
        \cup {OptWithoutPart(<<" ">> \o mouth \o <<" ">>), OptWithoutBackground}

OmitInputs == {"Binx Bond123", "Go"}

\* Generate(s, o) beside Generate(s, o followed by x).
InitAppend(inputs, base, extra) ==
    \E s \in inputs, o \in SeqsUpTo(base, MaxOpts), x \in extra :
        InitWith([k \in Calls |-> IF k = 1 THEN Call(s, o) ELSE Call(s, Append(o, x))])

InitOmit == InitAppend(OmitInputs, OmitBase, OmitOptions)

SpecOmit == InitOmit /\ [][Next]_vars

\* Call 2 was given call 1's input and call 1's options followed by one more.
OneMoreOption ==
    /\ args[1].input = args[2].input
    /\ args[2].opts # <<>>
    /\ args[1].opts = SubSeq(args[2].opts, 1, Len(args[2].opts) - 1)

LastOption == args[2].opts[Len(args[2].opts)]

\* C5: for a non-empty input, adding the option that disables part p gives
\* the document without p's fragment, every other fragment unchanged and in
\* place; adding background suppression gives the document without env's.
C5_OmitRemovesExactlyThatPart ==
    (OneMoreOption /\ args[1].input # "" /\ Returned(1) /\ Returned(2)) =>
        LET incl == IncludedParts(args[1].opts)
            p    == TrimSpace(LastOption.partName)
        IN  /\ (LastOption.kind = "WithoutPart" /\ p \in KnownParts) =>
                    /\ result[1] = DocOf(selectedParts[1], incl)
                    /\ result[2] = DocOf(selectedParts[1], incl \ {p})
            /\ LastOption.kind = "WithoutBackground" =>
                    /\ result[1] = DocOf(selectedParts[1], incl)
                    /\ result[2] = DocOf(selectedParts[1], incl \ {env})

\* Disabling head, rendered by the first call under a colour override, gave a
\* shorter document.
C5_Witness ==
    /\ OneMoreOption /\ Returned(1) /\ Returned(2)
    /\ LastOption = OptWithoutPart(head)
    /\ args[1].opts # <<>>
    /\ head \in IncludedParts(args[1].opts)
    /\ Len(result[2]) = Len(result[1]) - Len(selectedParts[1][head])
    /\ Len(selectedParts[1][head]) > 0

NoopBase ==
    {OptWithTheme(<<"a">>),
     OptWithPartVersion(eyes, V("0","7")),
     OptWithPartTheme(top, <<"c">>),
     OptWithAllowedThemes(top, <<ThemeB, ThemeA>>),
     OptWithAllowedVersions(eyes, <<V("0","3"), V("1","1")>>),
     OptWithPartColors(head, << <<"#","f","2">> >>)}

hat == <<"h","a","t">>

MalformedOptions ==
    {OptWithTheme(<<"d">>),
     OptWithPartVersion(hat, V("0","1")),
     OptWithPartVersion(eyes, <<"7", " ">>),
     OptWithPartTheme(top, <<"a", "b">>),
     OptWithAllowedThemes(top, << <<"x">>, <<>> >>),
     OptWithAllowedVersions(eyes, << <<"1">>, <<"1","2","3">> >>),
     OptWithoutPart(<<"T","o","p">>),
     OptWithPartColors(hat, << <<"#","0">> >>)}

EmptyColorOptions == {OptWithPartColors(head, <<>>), OptWithPartColors(top, <<>>)}

NoopInputs == {"Binx Bond123"}

InitNoop == InitAppend(NoopInputs, NoopBase, MalformedOptions \cup EmptyColorOptions)

SpecNoop == InitNoop /\ [][Next]_vars

TakesPartName(opt) ==
    opt.kind \in {"WithPartVersion", "WithPartColors", "WithPartTheme",
                  "WithAllowedThemes", "WithoutPart", "WithAllowedVersions"}

\* Malformed as the constructors read their arguments: names, codes and
\* themes after trimming, themes also after upper-casing.
MalformedOption(opt) ==
    \/ TakesPartName(opt) /\ TrimSpace(opt.partName) \notin KnownParts
    \/ opt.kind = "WithPartVersion" /\ Len(TrimSpace(opt.str)) # 2
    \/ opt.kind \in {"WithTheme", "WithPartTheme"}
        /\ ToUpper(TrimSpace(opt.str)) \notin ThemeLetters
    \/ opt.kind = "WithAllowedThemes"
        /\ \A i \in DOMAIN opt.list : ToUpper(TrimSpace(opt.list[i])) \notin ThemeLetters
    \/ opt.kind = "WithAllowedVersions"
        /\ \A i \in DOMAIN opt.list : Len(TrimSpace(opt.list[i])) # 2

\* C9: an option with an unknown part name, a version code whose length is
\* not 2, a theme other than A/B/C or an allowed list without a valid entry
\* (all read after trimming, themes after upper-casing), applied after any
\* option sequence, leaves the returned document as it is without it.
C9_MalformedIsNoop ==
    (OneMoreOption /\ Returned(1) /\ Returned(2) /\ MalformedOption(LastOption))
        => result[2] = result[1]

\* A one-character version code for eyes followed a valid forced version,
\* which is still the one resolved.
C9_Witness ==
    /\ OneMoreOption /\ Returned(1) /\ Returned(2)
    /\ LastOption = OptWithPartVersion(eyes, <<"7", " ">>)
    /\ \E i \in DOMAIN args[1].opts : args[1].opts[i] = OptWithPartVersion(eyes, V("0","7"))
    /\ resolved[2][eyes].partV = V("0","7")
    /\ result[2] = result[1]

\* C10: a colour override with an empty list for a part, applied after any
\* option sequence, leaves the returned document as it is without it; an
\* earlier non-empty override of that part stays in use.
C10_EmptyColorsIsNoop ==
    (OneMoreOption /\ Returned(1) /\ Returned(2)
        /\ LastOption.kind = "WithPartColors" /\ LastOption.list = <<>>)
        => result[2] = result[1]

(***************************************************************************)
(* Colour overrides and placeholder substitution                           *)
(***************************************************************************)
\* The template s from position from on, with the i-th, (i+1)-th, ...
\* placeholder found by the left-to-right scan replaced by colors[i],
\* colors[i+1], ... followed by ";", and everything else kept.
RECURSIVE PositionalFill(_, _, _, _)
PositionalFill(s, from, colors, i) ==
    LET h == NextIn(s, from, {"#"})
        e == IF h = 0 THEN 0 ELSE NextIn(s, h + 1, {";", "\n"})
    IN  IF h = 0 \/ e = 0 THEN SubSeq(s, from, Len(s))
        ELSE IF s[e] = ";"
        THEN SubSeq(s, from, h - 1)
                \o (IF i <= Len(colors) THEN colors[i] \o <<";">> ELSE SubSeq(s, h, e))
                \o PositionalFill(s, e + 1, colors, i + 1)
        ELSE SubSeq(s, from, e) \o PositionalFill(s, e + 1, colors, i)

\* The template the catalog holds for a resolved version and a part.
TemplateOf(partV, name) == parts[Atoi(partV)][partIndex(name)]

InCatalog(partV, theme, name) ==
    /\ partV \in DOMAIN themes
    /\ theme \in DOMAIN themes[partV]
    /\ name \in DOMAIN themes[partV][theme]

ColorOptions ==
    {OptWithPartColors(clo, << <<"#","0","2">>, <<"r">> >>),
     OptWithPartColors(clo, << <<"r">> >>),
     OptWithPartColors(eyes, << <<" ","g"," ">>, <<"#","b">>, <<"#","c">> >>),
     OptWithPartColors(head, << <<"#","f","2">> >>),
     OptWithTheme(<<"b">>)}

InitColors == InitResolve(ColorOptions)

SpecColors == InitColors /\ [][Next]_vars

\* C11: a non-empty colour override of a part replaces the catalog's list
\* wholesale: the i-th placeholder of the part's template receives
\* override[i] while i < len(override), and the placeholders beyond the
\* override stay in the fragment as literal tokens, never filled from the
\* catalog.
C11_OverrideWholesale ==
    \A k \in Calls : \A name \in DOMAIN resolved[k] :
        LET r  == resolved[k][name]
            ov == OverrideOf(cfg[k], name)
        IN  (Len(ov) > 0 /\ InCatalog(r.partV, r.theme, name)) =>
                selectedParts[k][name] = PositionalFill(TemplateOf(r.partV, name), 1, ov, 1)

\* Longest colour list of a catalog entry in the rendering checks.
MaxColors == 2

RenderTemplates ==
    {<<"a", "#", "1", ";", "b", "#", "2", ";", "c">>,
     <<"#", "1", ";", "#", "1", ";">>,
     <<"#", "1", ";", "#", "2", ";", "#", "1", ";">>,
     <<"a">>,
     <<"a", "#", "1">>,
     <<"#", ";", "a", ";">>}

RenderColors == {<<"r">>, <<"#", "2">>, <<"#", "1">>, <<>>}

\* A catalog whose every template is tpl and every colour list is colors.
InitRender ==
    \E tpl \in RenderTemplates, colors \in SeqsUpTo(RenderColors, MaxColors) :
        /\ themes = [v \in VersionCodes |-> [t \in ThemeLetters |-> [n \in KnownParts |-> colors]]]
        /\ parts = [id \in 0..15 |-> [idx \in 0..5 |-> tpl]]
        /\ args = [k \in Calls |-> IF k = 1 THEN Call("Binx Bond123", <<>>)
                                    ELSE Call("Go", <<OptWithoutBackground>>)]
        /\ pc = [k \in Calls |-> "idle"]
        /\ cfg = [k \in Calls |-> NewConfig]
        /\ optIdx = [k \in Calls |-> 1]
        /\ hashStr = [k \in Calls |-> <<>>]
        /\ partIdx = [k \in Calls |-> 0]
        /\ resolved = [k \in Calls |-> EmptyMap]
        /\ selectedParts = [k \in Calls |-> EmptyMap]
        /\ result = [k \in Calls |-> <<>>]

SpecRender == InitRender /\ [][Next]_vars

\* The colour list getFinalPartWithOverride resolves for a part.
ResolvedColors(c, r, name) ==
    IF Len(OverrideOf(c, name)) > 0 THEN OverrideOf(c, name)
    ELSE themes[r.partV][r.theme][name]

\* C14: rendering is positional: the fragment is the template with the i-th
\* placeholder of the left-to-right scan replaced by colors[i] and ";" for
\* every i < len(colors) and all other text unchanged, also when a token
\* text occurs twice and when a colour followed by ";" equals a later token.
C14_PositionalSubstitution ==
    \A k \in Calls : \A name \in DOMAIN resolved[k] :
        LET r == resolved[k][name]
        IN  InCatalog(r.partV, r.theme, name) =>
                selectedParts[k][name] =
                    PositionalFill(TemplateOf(r.partV, name), 1,
                                   ResolvedColors(cfg[k], r, name), 1)


(***************************************************************************)
(* Concurrent invocations                                                   *)
(***************************************************************************)
PairOptions ==
    {OptWithPartColors(clo, << <<"r">> >>),
     OptWithGender(<<"F">>),
     OptWithoutBackground}

\* Two invocations with different inputs and independent option sequences.
InitPair ==
    \E o1 \in SeqsUpTo(PairOptions, MaxOpts),
       o2 \in SeqsUpTo(PairOptions \ {OptWithPartColors(clo, << <<"r">> >>)}, MaxOpts) :
        InitWith([k \in Calls |-> IF k = 1 THEN Call("Binx Bond123", o1)
                                  ELSE Call("Go", o2)])

SpecPair == InitPair /\ [][Next]_vars

\* The config after the first n options of opts, applied in order.
RECURSIVE ConfigAfter(_, _)
ConfigAfter(opts, n) ==
    IF n = 0 THEN NewConfig ELSE ApplyOpt(opts[n], ConfigAfter(opts, n - 1))

\* The fragment of the i-th part (from 0) of a call running alone.
AloneFragment(c, seed, i) ==
    LET name == partNames[i + 1]
        val  == Atoi(SubSeq(seed, i * 2 + 1, i * 2 + 2))
        dflt == DefaultPart(ScaleNr(val))
    IN  getFinalPartWithOverride(name,
                                 ResolveVersion(c, name, val, dflt.partV),
                                 ResolveTheme(c, name, val, dflt.theme),
                                 OverrideOf(c, name))

\* What Generate(a.input, a.opts...) returns with no other call running.
GenerateAlone(a) ==
    LET c    == ConfigAfter(a.opts, Len(a.opts))
        seed == SeedOf(a.input)
    IN  IF IsEmptyInput(a.input) THEN <<>>
        ELSE AssembleSVG(c, [name \in KnownParts |->
                                AloneFragment(c, seed, partIndex(name))])

\* Everything call k owns.
CallState(k) ==
    <<args[k], pc[k], cfg[k], optIdx[k], hashStr[k], partIdx[k],
      resolved[k], selectedParts[k], result[k]>>

\* C12: concurrent invocations of Generate do not interfere: every step
\* leaves the catalog (fragment and colour tables) as it was and changes the
\* state of one call only, and a call that returns under any interleaving
\* returns the string it returns when run alone.
C12_NoInterference ==
    [][/\ themes' = themes
       /\ parts' = parts
       /\ \E k \in Calls : \A j \in Calls \ {k} : CallState(j)' = CallState(j)
       /\ \A k \in Calls : Returned(k)' => result'[k] = GenerateAlone(args[k])]_vars

\* Both calls returned different documents, each under its own overrides,
\* with the catalog as loaded.
C12_Witness ==
    /\ Returned(1) /\ Returned(2)
    /\ Len(args[1].opts) = MaxOpts /\ Len(args[2].opts) = MaxOpts
    /\ args[1].opts # args[2].opts
    /\ Len(OverrideOf(cfg[1], clo)) > 0
    /\ ~Has(cfg[2].overrideColors, clo)
    /\ result[1] # result[2]
    /\ result[1] = GenerateAlone(args[1])
    /\ themes = CatalogThemes /\ parts = CatalogParts


(***************************************************************************)
(* Gender preset                                                            *)
(***************************************************************************)
GenderOptions ==
    {OptWithGender(<<" ", "F">>),
     OptWithGender(<<"U+2642">>),
     OptWithGender(<<"x">>),
     OptWithPartVersion(top, V("1","5")),
     OptWithPartTheme(eyes, <<"a">>),
     OptWithTheme(<<"a">>)}

InitGender == InitResolve(GenderOptions)

SpecGender == InitGender /\ [][Next]_vars

\* The option is the gender preset or names top or eyes.
StylesTopOrEyes(opt) ==
    \/ opt.kind = "WithGender"
    \/ TrimSpace(opt.partName) \in {top, eyes}

\* Index of the last option that is the preset or names top or eyes; 0 if none.
LastStyling(opts) ==
    LET S == {i \in DOMAIN opts : StylesTopOrEyes(opts[i])}
    IN  IF S = {} THEN 0 ELSE CHOOSE i \in S : \A j \in S : j <= i

\* The preset of the documentation: version list per part and the theme.
PresetOf(alias) ==
    IF alias = "female"
    THEN [topV |-> <<V("0","1"), V("0","3"), V("0","7"), V("1","0")>>,
          eyesV |-> <<V("0","3"), V("1","1")>>, theme |-> ThemeC]
    ELSE [topV |-> <<V("0","4"), V("0","5"), V("1","4")>>,
          eyesV |-> <<V("0","9"), V("1","0")>>, theme |-> ThemeB]

\* "female", "male" or "none": what the last styling option asks for.
LastGender(opts) ==
    LET g == LastStyling(opts)
    IN  IF g = 0 \/ opts[g].kind # "WithGender" THEN "none"
        ELSE IF ToLower(TrimSpace(opts[g].str)) \in FemaleAliases THEN "female"
        ELSE IF ToLower(TrimSpace(opts[g].str)) \in MaleAliases THEN "male"
        ELSE "none"

FollowsPreset(k, p, list, theme) ==
    Has(resolved[k], p) =>
        LET r == resolved[k][p]
        IN  /\ r.theme = theme
            /\ ~Has(cfg[k].forcePartV, p) =>
                    /\ r.partV = list[(r.val % Len(list)) + 1]
                    /\ r.partV \in {list[i] : i \in DOMAIN list}

\* C13: when the gender option with a female (male) alias is the last
\* option for top or eyes, the resolved themes of top and eyes are C (B)
\* and, unless a version is forced for the part, its version is
\* list[v mod len(list)] of the preset's list, hence in {01,03,07,10} and
\* {03,11} (in {04,05,14} and {09,10}).
C13_GenderPreset ==
    \A k \in Calls :
        LET g == LastGender(args[k].opts)
        IN  g # "none" =>
                /\ FollowsPreset(k, top, PresetOf(g).topV, PresetOf(g).theme)
                /\ FollowsPreset(k, eyes, PresetOf(g).eyesV, PresetOf(g).theme)

\* A female preset given after a forced eyes theme and a global theme:
\* both parts resolved in theme C with versions of the preset.
C13_Witness ==
    /\ Returned(1) /\ Returned(2)
    /\ LastGender(args[1].opts) = "female"
    /\ \E i \in DOMAIN args[1].opts : args[1].opts[i].kind = "WithPartTheme"
    /\ ~Has(cfg[1].forcePartV, top)
    /\ resolved[1][top].theme = ThemeC /\ resolved[1][eyes].theme = ThemeC
    /\ resolved[2][eyes].theme # ThemeC
    /\ resolved[1][top].partV # resolved[2][top].partV


(***************************************************************************)
(* Seed extraction, scaling and the default selection                       *)
(***************************************************************************)
\* Inputs whose seeds hold every raw value 00..99 in some chunk.
SeedInputs ==
    {"Binx Bond123", "John Doe", "Go",
     "b", "e", "q", "aw", "bl", "ck", "ec", "mw", "acu", "cfa", "za", "bds", "fna", "jh", "ll", "gi"}

SeedOptions ==
    {OptWithoutBackground,
     OptWithPartColors(head, << <<"#","f","2">> >>),
     OptWithPartVersion(top, V("1","5"))}

\* Call 1 without options, call 2 with one option.
InitSeed ==
    \E s \in SeedInputs, x \in SeedOptions :
        InitWith([k \in Calls |-> IF k = 1 THEN Call(s, <<>>) ELSE Call(s, <<x>>)])

SpecSeed == InitSeed /\ [][Next]_vars

\* No option overrides the version or the theme of the part.
NoOverridesFor(c, name) ==
    /\ c.selectedTheme = <<>>
    /\ ~Has(c.forcePartV, name) /\ ~Has(c.allowedVersions, name)
    /\ ~Has(c.partTheme, name) /\ ~Has(c.allowedThemes, name)

TwoDigits(n) == <<Digits[(n \div 10) + 1], Digits[(n % 10) + 1]>>

\* The band split of the specification.
BandOf(nr) ==
    IF nr > 31 THEN <<TwoDigits(nr - 32), ThemeC>>
    ELSE IF 15 < nr /\ nr <= 31 THEN <<TwoDigits(nr - 16), ThemeB>>
    ELSE <<TwoDigits(nr), ThemeA>>

\* n is v*47/100 rounded to the nearest integer, a half rounded up.
IsRounded(n, v) == 100 * n - 50 <= 47 * v /\ 47 * v < 100 * n + 50

\* C15: a part without overrides whose raw value is v in 0..99 resolves to
\* the band of nr = round(v*47/100), which lies in 0..47: (nr-32, C) when
\* nr > 31, (nr-16, B) when 15 < nr <= 31, (nr, A) when nr <= 15, the
\* version zero-padded to two digits and so in 00..15.
C15_DefaultSelection ==
    \A k \in Calls : \A name \in DOMAIN resolved[k] :
        LET r == resolved[k][name]
        IN  NoOverridesFor(cfg[k], name) =>
                /\ r.val \in 0..99
                /\ \E nr \in 0..47 :
                        /\ IsRounded(nr, r.val)
                        /\ <<r.partV, r.theme>> = BandOf(nr)
                /\ r.partV \in {TwoDigits(n) : n \in 0..15}

\* Raw value 68 scales to 32, the first step of theme C, and 99 to 47, the
\* last one.
C15_Witness ==
    /\ Returned(1)
    /\ \E name \in DOMAIN resolved[1] :
            /\ resolved[1][name].val = 68
            /\ resolved[1][name].partV = <<"0","0">>
            /\ resolved[1][name].theme = ThemeC
    /\ \E name \in DOMAIN resolved[1] :
            /\ resolved[1][name].val = 99
            /\ resolved[1][name].partV = <<"1","5">>

\* The digits of s, in order.
RECURSIVE KeepDigits(_)
KeepDigits(s) ==
    IF s = <<>> THEN <<>>
    ELSE (IF Head(s) \in {Digits[i] : i \in DOMAIN Digits} THEN <<Head(s)>> ELSE <<>>)
            \o KeepDigits(Tail(s))

DeclOrder == <<env, clo, head, mouth, eyes, top>>

SeedExtracted(k) == args[k].input # "" /\ pc[k] \in {"parts", "assemble", "done", "panic"}

\* C16: the seed is the first 12 decimal digits of the hex hash, non-digits
\* removed and order kept, and digits 2i and 2i+1 of the seed are the raw
\* value of the i-th part of the declaration order env, clo, head, mouth,
\* eyes, top.
C16_SeedChunks ==
    \A k \in Calls :
        SeedExtracted(k) =>
            LET d == KeepDigits(sha256Hex(args[k].input))
            IN  /\ hashStr[k] = SubSeq(d, 1, IF Len(d) > 12 THEN 12 ELSE Len(d))
                /\ \A i \in 0..5 :
                        Has(resolved[k], DeclOrder[i + 1]) =>
                            resolved[k][DeclOrder[i + 1]].val =
                                10 * DigitVal(d[2 * i + 1]) + DigitVal(d[2 * i + 2])

\* "Binx Bond123" hashes to ac4c4617...: the seed is 446172268173 and the
\* second chunk, 61, went to clo, the second declared part.
C16_Witness ==
    /\ Returned(1)
    /\ args[1].input = "Binx Bond123"
    /\ hashStr[1] = <<"4","4","6","1","7","2","2","6","8","1","7","3">>
    /\ resolved[1][clo].val = 61
    /\ resolved[1][head].val = 72
    /\ resolved[1][top].val = 73

\* n is v*47/100 rounded to the nearest integer, a half rounded to the even
\* neighbour.
IsRoundedHalfEven(n, v) ==
    \/ 100 * n - 50 < 47 * v /\ 47 * v < 100 * n + 50
    \/ n % 2 = 0 /\ (47 * v = 100 * n - 50 \/ 47 * v = 100 * n + 50)

\* C19: for every raw value the nr computed by rounding half away from
\* zero is also the half-to-even rounding of v*47/100, so the default
\* version and theme are the band of either.
C19_TieBreakImmaterial ==
    \A k \in Calls : \A name \in DOMAIN resolved[k] :
        LET r == resolved[k][name]
        IN  /\ IsRoundedHalfEven(ScaleNr(r.val), r.val)
            /\ \A n \in 0..47 : IsRoundedHalfEven(n, r.val) <=> IsRounded(n, r.val)
            /\ NoOverridesFor(cfg[k], name) =>
                    \A n \in 0..47 :
                        IsRoundedHalfEven(n, r.val) => <<r.partV, r.theme>> = BandOf(n)

\* Raw value 50 scales to 23.5, the only tie: both rules give 24, B 08.
C19_Witness ==
    /\ Returned(1)
    /\ \E name \in DOMAIN resolved[1] :
            /\ resolved[1][name].val = 50
            /\ ScaleNr(50) = 24
            /\ resolved[1][name].partV = <<"0","8">>
            /\ resolved[1][name].theme = ThemeB


(***************************************************************************)
(* The basic implementation (multiavatar.go) beside the extended one        *)
(***************************************************************************)
\* cfg := &config{} of the basic implementation.
BasicNewConfig == [withoutBackground |-> FALSE]

BasicWithoutBackground(c) == [c EXCEPT !.withoutBackground = TRUE]

getFinalPart(partName, partV, theme) ==
    LET ok == /\ partV \in DOMAIN themes
              /\ theme \in DOMAIN themes[partV]
              /\ partName \in DOMAIN themes[partV][theme]
    IN  IF ~ok THEN <<>>
        ELSE LET colors    == themes[partV][theme][partName]
                 partID    == Atoi(partV)
                 svgString == parts[partID][partIndex(partName)]
             IN  ReplaceLoop(svgString, FindAllString(svgString), colors, 1)

\* As BasicAssembleSVG, with the background written whatever the flag says.
BasicAssembleSVGAlwaysEnv(c, sp) ==
    OpenTag \o sp[env] \o sp[head] \o sp[clo] \o sp[top] \o sp[eyes] \o sp[mouth]
        \o CloseTag

\* 5: the WriteString calls of the basic Generate, in program order.
BasicAssembleSVG(c, sp) ==
    LET s0 == OpenTag
        s1 == IF ~c.withoutBackground THEN s0 \o sp[env] ELSE s0
    IN  s1 \o sp[head] \o sp[clo] \o sp[top] \o sp[eyes] \o sp[mouth] \o CloseTag

BasicStart(k) ==
    /\ pc[k] = "idle"
    /\ cfg' = [cfg EXCEPT ![k] = BasicNewConfig]
    /\ optIdx' = [optIdx EXCEPT ![k] = 1]
    /\ pc' = [pc EXCEPT ![k] = "opts"]
    /\ UNCHANGED <<themes, parts, args, hashStr, partIdx, resolved, selectedParts, result>>

\* The only Option of the basic implementation is WithoutBackground().
BasicApplyOption(k) ==
    /\ pc[k] = "opts"
    /\ optIdx[k] <= Len(args[k].opts)
    /\ args[k].opts[optIdx[k]].kind = "WithoutBackground"
    /\ cfg' = [cfg EXCEPT ![k] = BasicWithoutBackground(@)]
    /\ optIdx' = [optIdx EXCEPT ![k] = @ + 1]
    /\ UNCHANGED <<themes, parts, args, pc, hashStr, partIdx, resolved, selectedParts, result>>

BasicExtractSeed(k) ==
    /\ pc[k] = "opts"
    /\ optIdx[k] > Len(args[k].opts)
    /\ IF args[k].input = ""
       THEN /\ result' = [result EXCEPT ![k] = <<>>]
            /\ pc' = [pc EXCEPT ![k] = "done"]
            /\ UNCHANGED <<hashStr, partIdx>>
       ELSE /\ hashStr' = [hashStr EXCEPT ![k] = SeedOf(args[k].input)]
            /\ partIdx' = [partIdx EXCEPT ![k] = 0]
            /\ pc' = [pc EXCEPT ![k] = "parts"]
            /\ UNCHANGED result
    /\ UNCHANGED <<themes, parts, args, cfg, optIdx, resolved, selectedParts>>

BasicResolvePart(k) ==
    /\ pc[k] = "parts"
    /\ LET i    == partIdx[k]
           name == partNames[i + 1]
       IN  IF ~ChunkInRange(hashStr[k], i)
           THEN /\ pc' = [pc EXCEPT ![k] = "panic"]
                /\ UNCHANGED <<partIdx, resolved, selectedParts>>
           ELSE LET val  == Atoi(SubSeq(hashStr[k], i * 2 + 1, i * 2 + 2))
                    dflt == DefaultPart(ScaleNr(val))
                    frag == getFinalPart(name, dflt.partV, dflt.theme)
                IN  /\ resolved' = [resolved EXCEPT ![k] =
                            MapSet(@, name, [val |-> val, partV |-> dflt.partV,
                                             theme |-> dflt.theme])]
                    /\ selectedParts' = [selectedParts EXCEPT ![k] = MapSet(@, name, frag)]
                    /\ partIdx' = [partIdx EXCEPT ![k] = i + 1]
                    /\ pc' = [pc EXCEPT ![k] = IF i + 1 = Len(partNames)
                                               THEN "assemble" ELSE "parts"]
    /\ UNCHANGED <<themes, parts, args, cfg, optIdx, hashStr, result>>

BasicAssemble(k) ==
    /\ pc[k] = "assemble"
    /\ result' = [result EXCEPT ![k] = BasicAssembleSVG(cfg[k], selectedParts[k])]
    /\ pc' = [pc EXCEPT ![k] = "done"]
    /\ UNCHANGED <<themes, parts, args, cfg, optIdx, hashStr, partIdx, resolved, selectedParts>>

\* Call 1 is the extended Generate, call 2 the basic one.
NextBasic ==
    \/ Start(1)
    \/ ApplyOption(1)
    \/ ExtractSeed(1)
    \/ ResolvePart(1)
    \/ Assemble(1)
    \/ BasicStart(2)
    \/ BasicApplyOption(2)
    \/ BasicExtractSeed(2)
    \/ BasicResolvePart(2)
    \/ BasicAssemble(2)

RECURSIVE Repeat(_, _)
Repeat(x, n) == IF n = 0 THEN <<>> ELSE Append(Repeat(x, n - 1), x)

\* Both implementations are given the same input and the same options,
\* background suppression zero or more times.
InitBasic ==
    \E s \in Inputs \cup SeedInputs, n \in 0..MaxOpts :
        InitWith([k \in Calls |-> Call(s, Repeat(OptWithoutBackground, n))])

SpecBasic == InitBasic /\ [][NextBasic]_vars

\* C17: for every input and every option sequence made only of background
\* suppression, the extended Generate and the basic Generate end the same
\* way and return the same string.
C17_ImplementationsAgree ==
    (Finished(1) /\ Finished(2)) => (pc[1] = pc[2] /\ result[1] = result[2])

\* Both returned a document without background, the extended one from a
\* config with the override maps unused.
C17_Witness ==
    /\ Returned(1) /\ Returned(2)
    /\ Len(args[1].opts) = MaxOpts
    /\ cfg[1].withoutBackground /\ cfg[2].withoutBackground
    /\ cfg[1].overrideColors = EmptyMap
    /\ DOMAIN cfg[2] = {"withoutBackground"}
    /\ result[2] # <<>>
    /\ result[2] # BasicAssembleSVG(BasicNewConfig, selectedParts[2])


(***************************************************************************)
(* Order of the options                                                     *)
(***************************************************************************)
CommuteOptions ==
    {OptWithGender(<<"f">>),
     OptWithPartTheme(eyes, <<"a">>),
     OptWithPartTheme(clo, <<"a">>),
     OptWithPartTheme(<<" ">> \o clo, <<"b">>),
     OptWithTheme(<<"b">>),
     OptWithPartVersion(top, V("0","5")),
     OptWithAllowedVersions(eyes, <<V("0","2")>>),
     OptWithAllowedThemes(clo, <<<<"c">>>>),
     OptWithoutBackground}

CommuteInputs == {"Binx Bond123"}

\* s with its last two elements exchanged.
SwapLastTwo(s) ==
    IF Len(s) < 2 THEN s
    ELSE SubSeq(s, 1, Len(s) - 2) \o <<s[Len(s)], s[Len(s) - 1]>>

\* Call 2 is given call 1's options with the last two exchanged, as when
\* handleAvatar ranges over a map of two entries in the other order.
InitCommute ==
    \E s \in CommuteInputs, o \in SeqsUpTo(CommuteOptions, MaxOpts) :
        InitWith([k \in Calls |-> IF k = 1 THEN Call(s, o) ELSE Call(s, SwapLastTwo(o))])

SpecCommute == InitCommute /\ [][Next]_vars

\* The config entries an option may write: <<field, part>>, the part being
\* the trimmed name the constructors use as map key.
Writes(opt) ==
    LET pn == TrimSpace(opt.partName)
    IN  CASE opt.kind = "WithTheme"           -> {<<"selectedTheme", <<>>>>}
          [] opt.kind = "WithoutBackground"   -> {<<"withoutBackground", <<>>>>}
          [] opt.kind = "WithPartVersion"     -> {<<"forcePartV", pn>>}
          [] opt.kind = "WithPartColors"      -> {<<"overrideColors", pn>>}
          [] opt.kind = "WithPartTheme"       -> {<<"partTheme", pn>>}
          [] opt.kind = "WithAllowedThemes"   -> {<<"allowedThemes", pn>>}
          [] opt.kind = "WithAllowedVersions" -> {<<"allowedVersions", pn>>}
          [] opt.kind = "WithoutPart"         -> {<<"disabledParts", pn>>}
          [] opt.kind = "WithGender"          ->
                {<<f, p>> : f \in {"allowedVersions", "allowedThemes", "partTheme"},
                            p \in {top, eyes}}

\* The two calls got the same input and the same options but for the order
\* of the last two, which write disjoint config entries.
IndependentPairSwapped ==
    /\ args[1].input = args[2].input
    /\ Len(args[1].opts) >= 2
    /\ args[2].opts = SwapLastTwo(args[1].opts)
    /\ LET n == Len(args[1].opts)
       IN  Writes(args[1].opts[n - 1]) \cap Writes(args[1].opts[n]) = {}

\* C18: two options that write different config fields, or the same field
\* for different parts, commute: Generate with the two applied in either
\* order ends the same way and returns the same string.
C18_IndependentOptionsCommute ==
    (IndependentPairSwapped /\ Finished(1) /\ Finished(2))
        => (pc[1] = pc[2] /\ result[1] = result[2])

\* A global theme and a per-part theme, and two per-part themes for
\* different parts, were given in both orders after another option.
C18_Witness ==
    /\ IndependentPairSwapped /\ Returned(1) /\ Returned(2)
    /\ Len(args[1].opts) = MaxOpts
    /\ args[1].opts # args[2].opts
    /\ Has(cfg[1].partTheme, clo)
    /\ cfg[1].selectedTheme # <<>> \/ Has(cfg[1].partTheme, eyes)
    /\ result[1] = result[2]
    /\ result[1] # GenerateAlone(Call(args[1].input, <<>>))

====
